---- MODULE Spec2Model ----
(***************************************************************************)
(* deconz-exporter: the websocket event stream of a deCONZ gateway         *)
(* projected into prometheus gauges (src/src/lib.rs), served over HTTP     *)
(* (src/src/main.rs).                                                      *)
(*                                                                         *)
(* Two execution contexts share the process: the stream thread spawned by  *)
(* main (run -> websocket -> register_metrics -> stream -> process) and    *)
(* the main thread serving HTTP requests.  A panic in either one runs the  *)
(* panic hook, which exits the process.                                    *)
(*                                                                         *)
(* Representation:                                                         *)
(*   Option<T>        None is <<>>, Some(x) is <<x>>                       *)
(*   HashMap / series a function whose DOMAIN is the set of keys present   *)
(*   f64              [n |-> numerator, d |-> 1 or 100] (see F64, Div100)  *)
(*   DateTime<Utc>    minutes since the epoch (the wire format carries no  *)
(*                    seconds); NaiveDateTime: milliseconds                *)
(***************************************************************************)
EXTENDS Integers, Sequences, FiniteSets, TLC

VARIABLES
    sensors,      \* State.sensors: HashMap<String, Sensor>
    INFO,         \* gauge gateway_info
    BATTERY,      \* gauge battery
    TEMPERATURE,  \* gauge temperature_celsius
    PRESSURE,     \* gauge pressure_hpa
    HUMIDITY,     \* gauge humidity_ratio
    LASTUPDATED,  \* gauge sensor_last_updated_ms
    LASTSEEN,     \* gauge sensor_last_seen_ms
    REGISTRY,     \* names of the collectors registered, in order
    streamPc,     \* position of the stream thread
    proc,         \* "running" or "exited"
    response,     \* the last HTTP response sent
    error,        \* the error run returned, or the panic raised ("none" if neither)
    discoveries,  \* number of gateway discoveries run
    last,         \* what the last frame read was (see Observe)
    emitted,      \* the samples the last frame set
    result,       \* what the last call of the callback returned
    identities,   \* history: per id, the identity of the last identity update read
    dropped,      \* history: number of frames dropped by the decoder
    written,      \* history: per series, the value the last event to set it wrote
                  \* and the value it had before
    nframes       \* frames read so far

gauges == <<INFO, BATTERY, TEMPERATURE, PRESSURE, HUMIDITY, LASTUPDATED, LASTSEEN>>

\* What the frames read so far have left behind
frames == <<last, emitted, result, identities, dropped, written, nframes>>

vars == <<sensors, gauges, REGISTRY, streamPc, proc, response, error, discoveries,
          frames>>

----------------------------------------------------------------------------
(* Bounds *)

MaxFrames == 3

\* Calls of run in one process (SpecRerun)
MaxRuns == 2

----------------------------------------------------------------------------
(* Option, maps *)

None == <<>>

Some(x) == <<x>>

IsSome(o) == o # <<>>

Unwrap(o) == o[1]

UnwrapOr(o, d) == IF o # <<>> THEN o[1] ELSE d

Option(S) == {None} \cup {Some(x) : x \in S}

EmptyMap == [k \in {} |-> k]

Insert(map, k, v) == [x \in DOMAIN map \cup {k} |-> IF x = k THEN v ELSE map[x]]

Get(map, k) == IF k \in DOMAIN map THEN Some(map[k]) ELSE None

----------------------------------------------------------------------------
(* Numbers *)

I32Max == 2147483647

I32Min == -2147483647 - 1

\* `v as f64`
F64(v) == [n |-> v, d |-> 1]

\* `v as f64 / 100.0`
Div100(v) == IF v % 100 = 0 THEN [n |-> v \div 100, d |-> 1] ELSE [n |-> v, d |-> 100]

\* i32::abs without overflow checks: the minimum wraps to itself
WrappingAbs(v) == IF v = I32Min THEN I32Min ELSE IF v < 0 THEN -v ELSE v

\* i32::abs with overflow checks panics on the minimum
AbsPanics(v, checks) == checks /\ v = I32Min

\* if t.abs() > 100 { t as f64 / 100.0 } else { t as f64 }
Scale(v) == IF WrappingAbs(v) > 100 THEN Div100(v) ELSE F64(v)

\* DateTime<Utc>::timestamp_millis
TimestampMillis(minutes) == F64(minutes * 60000)

----------------------------------------------------------------------------
(* Inputs: what the gateway can send.  Only the fields process reads are   *)
(* kept: of Sensor the five label fields and lastseen, of SensorConfig the *)
(* battery, of Event type_, event, id, attr, state and config.             *)

Ids == {"1", "2"}

\* Sensor.lastseen, in minutes since the epoch
LastSeens == {1, 2}

\* StateChange.lastupdated, in milliseconds since the epoch
LastUpdateds == {90000}

Batteries == {F64(100), F64(87)}

\* Two identities that differ in every field a later event could overwrite,
\* and a third that differs from the second in fields no label shows: its
\* firmware version is the empty string instead of missing
SensorsIn ==
    {[manufacturername |-> "LUMI", modelid |-> "lumi.weather", name |-> "Living room",
      swversion |-> Some("1.0"), tipe |-> "ZHATemperature", lastseen |-> 1],
     [manufacturername |-> "LUMI", modelid |-> "lumi.weather", name |-> "Kitchen",
      swversion |-> None, tipe |-> "ZHATemperature", lastseen |-> 2],
     [manufacturername |-> "LUMI", modelid |-> "lumi.weather", name |-> "Kitchen",
      swversion |-> Some(""), tipe |-> "ZHATemperature", lastseen |-> 1]}

Configs == [battery : Batteries]

StateChanges(T, H, P) ==
    [temperature : Option(T), humidity : Option(H), pressure : Option(P),
     lastupdated : LastUpdateds]

AllEvents ==
    [type_ : {"event", "response"}, event : {"changed", "added", "deleted"}, id : Ids,
     attr : Option(SensorsIn), state : Option(StateChanges({2090}, {50}, {1003})),
     config : Option(Configs)]

Sections(e) ==
    (IF IsSome(e.attr) THEN {"attr"} ELSE {}) \cup
    (IF IsSome(e.state) THEN {"state"} ELSE {}) \cup
    (IF IsSome(e.config) THEN {"config"} ELSE {})

Keys(change) ==
    (IF IsSome(change.temperature) THEN {"temperature"} ELSE {}) \cup
    (IF IsSome(change.humidity) THEN {"humidity"} ELSE {}) \cup
    (IF IsSome(change.pressure) THEN {"pressure"} ELSE {})

AllKeys == {"temperature", "humidity", "pressure"}

\* Events of kind "event" and action "changed", with every combination of
\* sections. A section that comes alone takes every value; beside another
\* section the state carries all three keys, the config the battery 87 and the
\* identity the name "Kitchen" and no firmware version. The identity with the
\* empty firmware version is that of device "2".
ChangedEvents ==
    {e \in AllEvents :
        /\ e.type_ = "event" /\ e.event = "changed"
        /\ (IsSome(e.attr) /\ Unwrap(e.attr).swversion = Some("")) => e.id = "2"
        /\ Cardinality(Sections(e)) > 1 =>
              /\ IsSome(e.state) => Keys(Unwrap(e.state)) = AllKeys
              /\ IsSome(e.config) => Unwrap(e.config).battery = F64(87)
              /\ IsSome(e.attr) => /\ Unwrap(e.attr).name = "Kitchen"
                                   /\ Unwrap(e.attr).swversion = None
        /\ Sections(e) = {} => e.id = "1"}

\* Events of another kind or action, with every section or none
OtherEvents ==
    {e \in AllEvents :
        /\ ~(e.type_ = "event" /\ e.event = "changed")
        /\ e.type_ = "response" => e.event = "changed"
        /\ e.id = "1"
        /\ \/ /\ Sections(e) = {"attr", "state", "config"}
              /\ Keys(Unwrap(e.state)) = AllKeys
              /\ Unwrap(e.config).battery = F64(87)
              /\ Unwrap(e.attr).name = "Kitchen"
              /\ Unwrap(e.attr).swversion = None
           \/ Sections(e) = {} /\ e.event = "added"}

Events == ChangedEvents \cup OtherEvents

\* Readings at the edges of the scaling rule and of the i32 range
BoundaryRaws == {I32Min, -101, -100, 100, 101, I32Max}

BoundaryEvents ==
    {e \in [type_ : {"event"}, event : {"changed"}, id : {"1"},
            attr : Option(SensorsIn),
            state : Option(StateChanges(BoundaryRaws, BoundaryRaws, BoundaryRaws)),
            config : {None}] :
        /\ Cardinality(Sections(e)) = 1
        /\ IsSome(e.attr) => /\ Unwrap(e.attr).name = "Kitchen"
                             /\ Unwrap(e.attr).swversion = None
        /\ IsSome(e.state) => Cardinality(Keys(Unwrap(e.state))) = 1}

\* The identity updates alone
StartupEvents == {e \in ChangedEvents : Sections(e) = {"attr"}}

\* What is remembered of the last frame: the event it decoded to
Observe(e) == [frame |-> "event", event |-> e]

----------------------------------------------------------------------------
(* Sensor::labels *)

\* Variant: a missing firmware version is rendered as "unknown"
LabelsUnknownVersion(s, tipe) ==
    IF tipe
    THEN [manufacturername |-> s.manufacturername, modelid |-> s.modelid,
          name |-> s.name, swversion |-> UnwrapOr(s.swversion, "unknown"),
          type |-> s.tipe]
    ELSE [manufacturername |-> s.manufacturername, modelid |-> s.modelid,
          name |-> s.name, swversion |-> UnwrapOr(s.swversion, "unknown")]

\* Variant: the type label is added whatever the flag says
LabelsTyped(s, tipe) ==
    [manufacturername |-> s.manufacturername, modelid |-> s.modelid,
     name |-> s.name, swversion |-> UnwrapOr(s.swversion, ""), type |-> s.tipe]

Labels(s, tipe) ==
    IF tipe
    THEN [manufacturername |-> s.manufacturername, modelid |-> s.modelid,
          name |-> s.name, swversion |-> UnwrapOr(s.swversion, ""),
          type |-> s.tipe]
    ELSE [manufacturername |-> s.manufacturername, modelid |-> s.modelid,
          name |-> s.name, swversion |-> UnwrapOr(s.swversion, "")]

\* Variant: GaugeVec::with(labels).add(value), which sums onto the value held
GaugeAdd(gauge, labels, value) ==
    Insert(gauge, labels,
           IF labels \in DOMAIN gauge /\ gauge[labels].d = value.d
           THEN [value EXCEPT !.n = gauge[labels].n + value.n]
           ELSE value)

\* GaugeVec::with(labels).set(value)
GaugeSet(gauge, labels, value) == Insert(gauge, labels, value)

\* The series a sample belongs to: metric name and label combination
Series(sample) == <<sample.metric, sample.labels>>

\* The arrival-order record of writes: each sample of the event replaces what
\* is recorded for its series
Record(history, samples) ==
    [k \in DOMAIN history \cup {Series(sample) : sample \in samples} |->
        IF \E sample \in samples : Series(sample) = k
        THEN [value |-> (CHOOSE sample \in samples : Series(sample) = k).value,
              before |-> IF k \in DOMAIN history THEN Some(history[k].value) ELSE None]
        ELSE history[k]]

Sample(metric, labels, value) == [metric |-> metric, labels |-> labels, value |-> value]

----------------------------------------------------------------------------
(* process: the three effects, tried in order, each ending the call *)

Changed(e) == e.type_ = "event" /\ e.event = "changed"

\* Variant: the identity payload is taken whatever the kind and action
IsIdentityUpdateAnyAction(e) == IsSome(e.attr)

\* if let Some(attr) = &e.attr && e.type_ == "event" && e.event == "changed"
IsIdentityUpdate(e) == IsSome(e.attr) /\ Changed(e)

\* Variant: the state payload of a cached device is taken whatever the kind and
\* action
IsStateChangeAnyAction(e, map) == IsSome(e.state) /\ IsSome(Get(map, e.id))

\* if let Some(change) = &e.state && let Some(sensor) = state.sensors.get(&e.id) && ...
IsStateChange(e, map) == IsSome(e.state) /\ IsSome(Get(map, e.id)) /\ Changed(e)

\* if let Some(config) = &e.config && e.type_ == "event" && e.event == "changed"
IsConfigChange(e) == IsSome(e.config) /\ Changed(e)

\* Variant: a field the new identity lacks is kept from the old one
CacheInsertMerge(map, id, attr) ==
    Insert(map, id,
           IF id \in DOMAIN map /\ attr.swversion = None
           THEN [attr EXCEPT !.swversion = map[id].swversion]
           ELSE attr)

\* state.sensors.insert(e.id.to_string(), attr.clone())
CacheInsert(map, id, attr) == Insert(map, id, attr)

\* PRESSURE ... .set(p as f64)
PressureValue(p) == F64(p)

\* TEMPERATURE ... .set(if t.abs() > 100 { t as f64 / 100.0 } else { t as f64 })
TemperatureValue(t) == Scale(t)

\* HUMIDITY ... .set(if h.abs() > 100 { h as f64 / 100.0 } else { h as f64 })
HumidityValue(h) == Scale(h)

\* Variant: the last-seen series under the identity being replaced is removed
UpdateAttrsForget(e) ==
    LET attr == Unwrap(e.attr)
        value == TimestampMillis(attr.lastseen)
        old == IF e.id \in DOMAIN sensors THEN {Labels(sensors[e.id], FALSE)} ELSE {}
        kept == [l \in DOMAIN LASTSEEN \ old |-> LASTSEEN[l]]
    IN  /\ sensors' = CacheInsert(sensors, e.id, attr)
        /\ LASTSEEN' = GaugeSet(kept, Labels(attr, FALSE), value)
        /\ emitted' = {Sample("sensor_last_seen_ms", Labels(attr, FALSE), value)}
        /\ result' = "Ok"
        /\ streamPc' = "read"
        /\ UNCHANGED <<INFO, BATTERY, TEMPERATURE, PRESSURE, HUMIDITY, LASTUPDATED>>

\* Variant: no return after the identity update, so that a config section
\* beside it is handled as well
UpdateAttrsFallThrough(e) ==
    LET attr == Unwrap(e.attr)
        value == TimestampMillis(attr.lastseen)
        battery == IF IsSome(e.config)
                   THEN {Sample("battery", Labels(attr, FALSE), Unwrap(e.config).battery)}
                   ELSE {}
    IN  /\ sensors' = CacheInsert(sensors, e.id, attr)
        /\ LASTSEEN' = GaugeSet(LASTSEEN, Labels(attr, FALSE), value)
        /\ BATTERY' = IF IsSome(e.config)
                      THEN GaugeSet(BATTERY, Labels(attr, FALSE), Unwrap(e.config).battery)
                      ELSE BATTERY
        /\ emitted' = {Sample("sensor_last_seen_ms", Labels(attr, FALSE), value)}
                      \cup battery
        /\ result' = "Ok"
        /\ streamPc' = "read"
        /\ UNCHANGED <<INFO, TEMPERATURE, PRESSURE, HUMIDITY, LASTUPDATED>>

UpdateAttrs(e) ==
    LET attr == Unwrap(e.attr)
        value == TimestampMillis(attr.lastseen)
    IN  /\ sensors' = CacheInsert(sensors, e.id, attr)
        /\ LASTSEEN' = GaugeSet(LASTSEEN, Labels(attr, FALSE), value)
        /\ emitted' = {Sample("sensor_last_seen_ms", Labels(attr, FALSE), value)}
        /\ result' = "Ok"
        /\ streamPc' = "read"
        /\ UNCHANGED <<INFO, BATTERY, TEMPERATURE, PRESSURE, HUMIDITY, LASTUPDATED>>

\* Variant: return after the first recognized key of the payload
UpdateStateFirstKey(e, checks) ==
    LET change == Unwrap(e.state)
        sensor == Unwrap(Get(sensors, e.id))
        hasP == IsSome(change.pressure)
        setT == ~hasP /\ IsSome(change.temperature)
        setH == ~hasP /\ ~setT /\ IsSome(change.humidity)
        updated == F64(change.lastupdated)
    IN  /\ LASTUPDATED' = GaugeSet(LASTUPDATED, Labels(sensor, FALSE), updated)
        /\ PRESSURE' =
             IF hasP
             THEN GaugeSet(PRESSURE, Labels(sensor, TRUE), F64(Unwrap(change.pressure)))
             ELSE PRESSURE
        /\ TEMPERATURE' =
             IF setT
             THEN GaugeSet(TEMPERATURE, Labels(sensor, TRUE),
                           Scale(Unwrap(change.temperature)))
             ELSE TEMPERATURE
        /\ HUMIDITY' =
             IF setH
             THEN GaugeSet(HUMIDITY, Labels(sensor, TRUE), Scale(Unwrap(change.humidity)))
             ELSE HUMIDITY
        /\ emitted' =
             {Sample("sensor_last_updated_ms", Labels(sensor, FALSE), updated)}
             \cup (IF hasP
                   THEN {Sample("pressure_hpa", Labels(sensor, TRUE),
                                F64(Unwrap(change.pressure)))}
                   ELSE {})
             \cup (IF setT
                   THEN {Sample("temperature_celsius", Labels(sensor, TRUE),
                                Scale(Unwrap(change.temperature)))}
                   ELSE {})
             \cup (IF setH
                   THEN {Sample("humidity_ratio", Labels(sensor, TRUE),
                                Scale(Unwrap(change.humidity)))}
                   ELSE {})
        /\ result' = "Ok"
        /\ streamPc' = "read"
        /\ UNCHANGED <<sensors, INFO, BATTERY, LASTSEEN>>

\* The gauges are set in the order lastupdated, pressure, temperature, humidity;
\* a panic in abs() leaves the earlier ones set and unwinds the thread.
UpdateState(e, checks) ==
    LET change == Unwrap(e.state)
        sensor == Unwrap(Get(sensors, e.id))
        hasP == IsSome(change.pressure)
        hasT == IsSome(change.temperature)
        hasH == IsSome(change.humidity)
        panicT == hasT /\ AbsPanics(Unwrap(change.temperature), checks)
        panicH == ~panicT /\ hasH /\ AbsPanics(Unwrap(change.humidity), checks)
        setT == hasT /\ ~panicT
        setH == hasH /\ ~panicT /\ ~panicH
        updated == F64(change.lastupdated)
    IN  /\ LASTUPDATED' = GaugeSet(LASTUPDATED, Labels(sensor, FALSE), updated)
        /\ PRESSURE' =
             IF hasP
             THEN GaugeSet(PRESSURE, Labels(sensor, TRUE),
                           PressureValue(Unwrap(change.pressure)))
             ELSE PRESSURE
        /\ TEMPERATURE' =
             IF setT
             THEN GaugeSet(TEMPERATURE, Labels(sensor, TRUE),
                           TemperatureValue(Unwrap(change.temperature)))
             ELSE TEMPERATURE
        /\ HUMIDITY' =
             IF setH
             THEN GaugeSet(HUMIDITY, Labels(sensor, TRUE),
                           HumidityValue(Unwrap(change.humidity)))
             ELSE HUMIDITY
        /\ emitted' =
             {Sample("sensor_last_updated_ms", Labels(sensor, FALSE), updated)}
             \cup (IF hasP
                   THEN {Sample("pressure_hpa", Labels(sensor, TRUE),
                                PressureValue(Unwrap(change.pressure)))}
                   ELSE {})
             \cup (IF setT
                   THEN {Sample("temperature_celsius", Labels(sensor, TRUE),
                                TemperatureValue(Unwrap(change.temperature)))}
                   ELSE {})
             \cup (IF setH
                   THEN {Sample("humidity_ratio", Labels(sensor, TRUE),
                                HumidityValue(Unwrap(change.humidity)))}
                   ELSE {})
        /\ result' = IF panicT \/ panicH THEN "panic" ELSE "Ok"
        /\ streamPc' = IF panicT \/ panicH THEN "panic" ELSE "read"
        /\ UNCHANGED <<sensors, INFO, BATTERY, LASTSEEN>>

\* Variant: the cache entry is created on demand (entry().or_default())
UpdateBatteryOrDefault(e) ==
    LET config == Unwrap(e.config)
        default == [manufacturername |-> "", modelid |-> "", name |-> "",
                    swversion |-> None, tipe |-> "", lastseen |-> 0]
        s == UnwrapOr(Get(sensors, e.id), default)
    IN  /\ sensors' = Insert(sensors, e.id, s)
        /\ BATTERY' = GaugeSet(BATTERY, Labels(s, FALSE), config.battery)
        /\ emitted' = {Sample("battery", Labels(s, FALSE), config.battery)}
        /\ result' = "Ok"
        /\ streamPc' = "read"
        /\ UNCHANGED <<INFO, TEMPERATURE, PRESSURE, HUMIDITY, LASTUPDATED, LASTSEEN>>

UpdateBattery(e) ==
    LET config == Unwrap(e.config)
        s == Get(sensors, e.id)
    IN  /\ IF IsSome(s)
           THEN /\ BATTERY' = GaugeSet(BATTERY, Labels(Unwrap(s), FALSE), config.battery)
                /\ emitted' = {Sample("battery", Labels(Unwrap(s), FALSE), config.battery)}
           ELSE /\ BATTERY' = BATTERY
                /\ emitted' = {}
        /\ result' = "Ok"
        /\ streamPc' = "read"
        /\ UNCHANGED <<sensors, INFO, TEMPERATURE, PRESSURE, HUMIDITY, LASTUPDATED,
                       LASTSEEN>>

\* warn!("Ignoring unknown event {:?}", e); Ok(())
IgnoreUnknown ==
    /\ emitted' = {}
    /\ result' = "Ok"
    /\ streamPc' = "read"
    /\ UNCHANGED <<sensors, gauges>>

\* Variant: the config section is looked at before the state section
processConfigFirst(e, checks) ==
    IF IsIdentityUpdate(e) THEN UpdateAttrs(e)
    ELSE IF IsConfigChange(e) THEN UpdateBattery(e)
    ELSE IF IsStateChange(e, sensors) THEN UpdateState(e, checks)
    ELSE IgnoreUnknown

\* checks: whether the build has integer overflow checks
process(e, checks) ==
    IF IsIdentityUpdate(e) THEN UpdateAttrs(e)
    ELSE IF IsStateChange(e, sensors) THEN UpdateState(e, checks)
    ELSE IF IsConfigChange(e) THEN UpdateBattery(e)
    ELSE IgnoreUnknown

----------------------------------------------------------------------------
(* The registry *)

\* register_metrics registers the collectors in this order
Collectors ==
    <<"gateway_info", "battery", "temperature_celsius", "pressure_hpa",
      "humidity_ratio", "sensor_last_updated_ms", "sensor_last_seen_ms">>

GaugeOf(name) ==
    CASE name = "gateway_info" -> INFO
      [] name = "battery" -> BATTERY
      [] name = "temperature_celsius" -> TEMPERATURE
      [] name = "pressure_hpa" -> PRESSURE
      [] name = "humidity_ratio" -> HUMIDITY
      [] name = "sensor_last_updated_ms" -> LASTUPDATED
      [] name = "sensor_last_seen_ms" -> LASTSEEN

Range(seq) == {seq[i] : i \in DOMAIN seq}

\* Registry::register: a collector already registered is an error (AlreadyReg)
RECURSIVE RegisterAll(_, _)
RegisterAll(reg, names) ==
    IF names = <<>> THEN [ok |-> TRUE, registry |-> reg]
    ELSE IF Head(names) \in Range(reg) THEN [ok |-> FALSE, registry |-> reg]
    ELSE RegisterAll(Append(reg, Head(names)), Tail(names))

\* metrics(): the samples of every registered collector, under the registry's
\* "deconz" prefix
Metrics ==
    UNION {{Sample("deconz_" \o name, l, GaugeOf(name)[l]) : l \in DOMAIN GaugeOf(name)} :
           name \in Range(REGISTRY)}

----------------------------------------------------------------------------
(* The stream thread: run, then stream's loop *)

Running == proc = "running"

\* Variant: the gateway answered and gateway_info is left unset
DiscoverOkUnset ==
    /\ Running /\ streamPc = "discover"
    /\ discoveries' = discoveries + 1
    /\ streamPc' = "register"
    /\ UNCHANGED <<sensors, gauges, REGISTRY, proc, response, error, frames>>

\* websocket(): the gateway answered
DiscoverOk ==
    /\ Running /\ streamPc = "discover"
    /\ INFO' = GaugeSet(INFO, [name |-> "Phoscon-GW", apiversion |-> "1.16.0"], F64(1))
    /\ discoveries' = discoveries + 1
    /\ streamPc' = "register"
    /\ UNCHANGED <<sensors, BATTERY, TEMPERATURE, PRESSURE, HUMIDITY, LASTUPDATED,
                   LASTSEEN, REGISTRY, proc, response, error, frames>>

\* websocket(): gateway(host, username)? failed; run(...).unwrap() panics
DiscoverFail ==
    /\ Running /\ streamPc = "discover"
    /\ discoveries' = discoveries + 1
    /\ streamPc' = "panic"
    /\ error' = "gateway"
    /\ UNCHANGED <<sensors, gauges, REGISTRY, proc, response, frames>>

RegisterMetrics ==
    /\ Running /\ streamPc = "register"
    /\ LET r == RegisterAll(REGISTRY, Collectors)
       IN  /\ REGISTRY' = r.registry
           /\ streamPc' = IF r.ok THEN "connect" ELSE "panic"
           /\ error' = IF r.ok THEN error ELSE "already_registered"
    /\ UNCHANGED <<sensors, gauges, proc, response, discoveries, frames>>

\* tungstenite::client::connect(url)?
ConnectOk ==
    /\ Running /\ streamPc = "connect"
    /\ streamPc' = "read"
    /\ UNCHANGED <<sensors, gauges, REGISTRY, proc, response, error, discoveries,
                   frames>>

ConnectFail ==
    /\ Running /\ streamPc = "connect"
    /\ streamPc' = "panic"
    /\ error' = "connect"
    /\ UNCHANGED <<sensors, gauges, REGISTRY, proc, response, discoveries, frames>>

\* A text frame that decodes as the Event e: callback(&mut event, state)
ReadEvent(e) ==
    /\ Running /\ streamPc = "read" /\ nframes < MaxFrames
    /\ \E checks \in BOOLEAN :
          /\ process(e, checks)
          /\ error' = IF result' = "panic" THEN "overflow" ELSE error
    /\ last' = Observe(e)
    /\ identities' =
         IF e.type_ = "event" /\ e.event = "changed" /\ e.attr # None
         THEN Insert(identities, e.id, Unwrap(e.attr))
         ELSE identities
    /\ written' = Record(written, emitted')
    /\ nframes' = nframes + 1
    /\ UNCHANGED <<REGISTRY, proc, response, discoveries, dropped>>

\* Variant: the decode error is returned from stream with `?`
DropFrameFatal ==
    /\ streamPc' = "panic"
    /\ error' = "decode"
    /\ UNCHANGED <<sensors, gauges, REGISTRY, proc, response, discoveries>>

\* Err(err) => warn!("Failed to serialize, ignoring message: {:?}", err)
DropFrame ==
    /\ streamPc' = "read"
    /\ UNCHANGED <<sensors, gauges, REGISTRY, proc, response, error, discoveries>>

\* A text frame that does not decode as an Event
ReadMalformed ==
    /\ Running /\ streamPc = "read" /\ nframes < MaxFrames
    /\ DropFrame
    /\ last' = [frame |-> "malformed"]
    /\ emitted' = {}
    /\ dropped' = dropped + 1
    /\ nframes' = nframes + 1
    /\ UNCHANGED <<result, identities, written>>

\* A binary frame that is not UTF-8: to_text()? returns the error from stream
ReadNonText ==
    /\ Running /\ streamPc = "read" /\ nframes < MaxFrames
    /\ last' = [frame |-> "nontext"]
    /\ emitted' = {}
    /\ nframes' = nframes + 1
    /\ streamPc' = "panic"
    /\ error' = "utf8"
    /\ UNCHANGED <<sensors, gauges, REGISTRY, proc, response, discoveries, result,
                   identities, dropped, written>>

\* socket.read_message()? failed: the connection dropped
ReadFail ==
    /\ Running /\ streamPc = "read"
    /\ streamPc' = "panic"
    /\ error' = "read"
    /\ UNCHANGED <<sensors, gauges, REGISTRY, proc, response, discoveries, frames>>

----------------------------------------------------------------------------
(* The main thread: the HTTP server *)

\* Variant: the snapshot is rendered and the last-seen gauge is reset after it
ServeMetricsReset ==
    /\ Running
    /\ response' = [request |-> "GET /metrics", body |-> Metrics]
    /\ LASTSEEN' = EmptyMap
    /\ UNCHANGED <<sensors, INFO, BATTERY, TEMPERATURE, PRESSURE, HUMIDITY, LASTUPDATED,
                   REGISTRY, streamPc, proc, error, discoveries, frames>>

\* (Method::Get, "/metrics") => request.respond(Response::from_string(metrics()))
ServeMetrics ==
    /\ Running
    /\ response' = [request |-> "GET /metrics", body |-> Metrics]
    /\ UNCHANGED <<sensors, gauges, REGISTRY, streamPc, proc, error, discoveries,
                   frames>>

\* _ => request.respond(Response::from_string("Did you mean GET /metrics?\n"))
ServeOther ==
    /\ Running
    /\ response' = [request |-> "other", body |-> "Did you mean GET /metrics?\n"]
    /\ UNCHANGED <<sensors, gauges, REGISTRY, streamPc, proc, error, discoveries,
                   frames>>

\* The panic hook set by main: process::exit(1)
PanicHook ==
    /\ Running /\ streamPc = "panic"
    /\ proc' = "exited"
    /\ UNCHANGED <<sensors, gauges, REGISTRY, streamPc, response, error, discoveries,
                   frames>>

----------------------------------------------------------------------------

Init ==
    /\ sensors = EmptyMap
    /\ INFO = EmptyMap /\ BATTERY = EmptyMap /\ TEMPERATURE = EmptyMap
    /\ PRESSURE = EmptyMap /\ HUMIDITY = EmptyMap /\ LASTUPDATED = EmptyMap
    /\ LASTSEEN = EmptyMap
    /\ REGISTRY = <<>>
    /\ streamPc = "discover"
    /\ proc = "running"
    /\ response = [request |-> "none", body |-> {}]
    /\ error = "none"
    /\ discoveries = 0
    /\ last = [frame |-> "none"]
    /\ emitted = {}
    /\ result = "none"
    /\ identities = EmptyMap
    /\ written = EmptyMap
    /\ dropped = 0
    /\ nframes = 0

StreamThread(E) ==
    \/ DiscoverOk \/ DiscoverFail
    \/ RegisterMetrics
    \/ ConnectOk \/ ConnectFail
    \/ \E e \in E : ReadEvent(e)
    \/ ReadMalformed \/ ReadNonText \/ ReadFail

MainThread == ServeMetrics \/ ServeOther

Next == StreamThread(Events) \/ MainThread \/ PanicHook

Spec == Init /\ [][Next]_vars

\* Both threads are scheduled, and the hook of a panicking thread runs
FairSpec ==
    Spec /\ WF_vars(StreamThread(Events)) /\ WF_vars(MainThread) /\ WF_vars(PanicHook)

\* The same program, fed readings at the edges of the i32 range
NextBoundary == StreamThread(BoundaryEvents) \/ MainThread \/ PanicHook

SpecBoundary == Init /\ [][NextBoundary]_vars

\* run is public: a caller that takes the Err it returns, instead of unwrapping
\* it, and calls run again in the same process. The statics (the registry and
\* the gauges) live on; stream gets a fresh State::default().
Rerun ==
    /\ Running /\ streamPc = "panic" /\ error # "overflow"
    /\ discoveries < MaxRuns
    /\ streamPc' = "discover"
    /\ sensors' = EmptyMap
    /\ identities' = EmptyMap
    /\ error' = "none"
    /\ UNCHANGED <<gauges, REGISTRY, proc, response, discoveries, last, emitted,
                   result, dropped, written, nframes>>

\* The frames of the calls are identity updates
NextRerun == StreamThread(StartupEvents) \/ MainThread \/ PanicHook \/ Rerun

SpecRerun == Init /\ [][NextRerun]_vars

----------------------------------------------------------------------------
(* Properties *)

\* A step that reads one frame
FrameStep == nframes' = nframes + 1

\* The last frame decoded to an event of kind "event" and action "changed"
LastChanged ==
    /\ last.frame = "event"
    /\ last.event.type_ = "event" /\ last.event.event = "changed"

ReadingGauges == <<TEMPERATURE, PRESSURE, HUMIDITY>>

\* C1: a changed event with a state and/or config payload and no identity
\* payload, for an id no identity update has been read for, leaves every gauge
\* and the cache as they were, and process returns Ok.
C1_UnknownDeviceNoEffect ==
    [][(/\ FrameStep
        /\ LastChanged'
        /\ last'.event.attr = None
        /\ last'.event.state # None \/ last'.event.config # None
        /\ last'.event.id \notin DOMAIN identities)
       => /\ sensors' = sensors
          /\ gauges' = gauges
          /\ result' = "Ok"
          /\ streamPc' = "read"]_vars

\* C1 witness: a state-and-config event for a device never identified was
\* read, while another device was cached and had samples
C1_Witness ==
    /\ LastChanged
    /\ last.event.attr = None /\ last.event.state # None /\ last.event.config # None
    /\ last.event.id \notin DOMAIN identities
    /\ DOMAIN identities # {}
    /\ DOMAIN TEMPERATURE # {}
    /\ result = "Ok"

\* The five label values of a sample are those of the identity
LabelsFrom(sample, identity) ==
    /\ sample.labels.manufacturername = identity.manufacturername
    /\ sample.labels.modelid = identity.modelid
    /\ sample.labels.name = identity.name
    /\ sample.labels.swversion = (IF identity.swversion = None THEN ""
                                  ELSE identity.swversion[1])
    /\ "type" \in DOMAIN sample.labels => sample.labels.type = identity.tipe

\* C2: the cache holds, for each id, exactly the identity of the last identity
\* update read for it, and every sample of a state or config event carries the
\* label values of that identity only.
C2_OnlyLatestIdentity ==
    /\ DOMAIN sensors = DOMAIN identities
    /\ \A id \in DOMAIN identities : sensors[id] = identities[id]
    /\ (LastChanged /\ last.event.attr = None) =>
          \A sample \in emitted : LabelsFrom(sample, identities[last.event.id])

\* C2 witness: device "1" alone was identified, first as "Living room" (its
\* last-seen series is there) and then as "Kitchen", and a state event for it
\* has set its temperature
C2_Witness ==
    /\ DOMAIN identities = {"1"}
    /\ identities["1"].name = "Kitchen"
    /\ \E l \in DOMAIN LASTSEEN : l.name = "Living room"
    /\ LastChanged /\ last.event.id = "1" /\ last.event.attr = None
    /\ \E sample \in emitted : sample.metric = "temperature_celsius"

\* The reading v after the scaling rule, with the mathematical absolute value
Normalized(v) == IF v > 100 \/ v < -100 THEN Div100(v) ELSE F64(v)

\* C3: after a state event for a cached device, temperature_celsius and
\* humidity_ratio hold v/100 when abs(v) > 100 and v otherwise, and pressure_hpa
\* holds v, for every reading v of the payload in the i32 range.
C3_ScalingRule ==
    (/\ LastChanged
     /\ last.event.attr = None /\ last.event.state # None
     /\ last.event.id \in DOMAIN identities)
    => LET change == last.event.state[1]
           l == Labels(sensors[last.event.id], TRUE)
       IN  /\ change.temperature # None =>
                 /\ l \in DOMAIN TEMPERATURE
                 /\ TEMPERATURE[l] = Normalized(change.temperature[1])
           /\ change.humidity # None =>
                 /\ l \in DOMAIN HUMIDITY
                 /\ HUMIDITY[l] = Normalized(change.humidity[1])
           /\ change.pressure # None =>
                 /\ l \in DOMAIN PRESSURE
                 /\ PRESSURE[l] = F64(change.pressure[1])

\* A sample of the metric is among those the step set, under the labels of
\* the identity, and the gauge holds it
Sampled(metric, gauge, samples, identity) ==
    \E sample \in samples :
        /\ sample.metric = metric
        /\ LabelsFrom(sample, identity)
        /\ sample.labels \in DOMAIN gauge
        /\ gauge[sample.labels] = sample.value

C5_OneEffectInOrder ==
    [][(FrameStep /\ LastChanged')
       => LET identityEffect == sensors' # sensors \/ LASTSEEN' # LASTSEEN
              stateEffect == \/ ReadingGauges' # ReadingGauges
                             \/ LASTUPDATED' # LASTUPDATED
              configEffect == BATTERY' # BATTERY
          IN  /\ ~(identityEffect /\ stateEffect)
              /\ ~(identityEffect /\ configEffect)
              /\ ~(stateEffect /\ configEffect)
              /\ last'.event.attr # None => ~stateEffect /\ ~configEffect
              /\ (/\ last'.event.attr = None /\ last'.event.state # None
                  /\ last'.event.id \in DOMAIN identities) => ~configEffect]_vars

\* C5 witness: an event with all three sections was read for a device that
\* had readings, and set the last-seen sample only
C5_Witness ==
    /\ LastChanged
    /\ last.event.attr # None /\ last.event.state # None /\ last.event.config # None
    /\ {sample.metric : sample \in emitted} = {"sensor_last_seen_ms"}
    /\ DOMAIN TEMPERATURE # {}
    /\ DOMAIN BATTERY = {}

\* C6, as claimed: an identity update stores the identity under the event's id
\* and leaves every gauge, series and value as it was.
C6_IdentityEmitsNothing ==
    [][(FrameStep /\ LastChanged' /\ last'.event.attr # None)
       => /\ sensors' = [id \in DOMAIN sensors \cup {last'.event.id} |->
                           IF id = last'.event.id THEN last'.event.attr[1]
                           ELSE sensors[id]]
          /\ gauges' = gauges]_vars

\* C6, amended: an identity update stores the identity under the event's id
\* and sets one series, sensor_last_seen_ms under the identity's manufacturer,
\* model, name and firmware version, to the identity's last-seen time in
\* milliseconds; every other gauge and series is as it was.
C6_IdentitySetsLastSeenOnly ==
    [][(FrameStep /\ LastChanged' /\ last'.event.attr # None)
       => LET attr == last'.event.attr[1]
              l == [manufacturername |-> attr.manufacturername,
                    modelid |-> attr.modelid, name |-> attr.name,
                    swversion |-> IF attr.swversion = None THEN ""
                                  ELSE attr.swversion[1]]
          IN  /\ sensors' = [id \in DOMAIN sensors \cup {last'.event.id} |->
                               IF id = last'.event.id THEN attr ELSE sensors[id]]
              /\ LASTSEEN' = [k \in DOMAIN LASTSEEN \cup {l} |->
                                IF k = l THEN [n |-> attr.lastseen * 60000, d |-> 1]
                                ELSE LASTSEEN[k]]
              /\ UNCHANGED <<INFO, BATTERY, TEMPERATURE, PRESSURE, HUMIDITY,
                             LASTUPDATED>>]_vars

\* C6 witness: an identity update with a config section beside it was read for
\* a device cached under another name
C6_Witness ==
    /\ LastChanged
    /\ last.event.attr # None /\ last.event.config # None
    /\ sensors[last.event.id] = last.event.attr[1]
    /\ \E l \in DOMAIN LASTSEEN : l.name # last.event.attr[1].name
    /\ DOMAIN sensors = {last.event.id}

\* C7: a frame whose text does not decode leaves the cache, the gauges and the
\* registry as they were, and the loop goes on to read the next frame.
C7_MalformedFrameDropped ==
    [][(FrameStep /\ last'.frame = "malformed")
       => /\ sensors' = sensors
          /\ gauges' = gauges
          /\ REGISTRY' = REGISTRY
          /\ streamPc' = "read"
          /\ proc' = "running"]_vars

\* C7 witness: after a frame was dropped, a state event was read and set the
\* temperature of a cached device
C7_Witness ==
    /\ dropped > 0
    /\ LastChanged /\ last.event.attr = None /\ last.event.state # None
    /\ \E sample \in emitted : sample.metric = "temperature_celsius"
    /\ streamPc = "read"

\* The errors of the transport: connecting and reading a frame
TransportErrors == {"connect", "read"}

\* C8: no frame received from the transport makes the loop return; after
\* every frame read the loop is back at reading.
C8_NoFrameEndsLoop == [][FrameStep => streamPc' = "read"]_vars

\* C9: after a transport failure has ended the stream loop, a GET /metrics
\* request is still served.
C9_ServedAfterTransportFailure == error \in TransportErrors => ENABLED ServeMetrics

\* C10: after a transport failure, gateway discovery is eventually run again.
C10_StreamReestablished == (error \in TransportErrors) ~> (discoveries > 1)

\* C11: registering the collectors again in the same process succeeds and
\* leaves the registry as it was.
C11_RegistrationIdempotent ==
    [][(streamPc = "register" /\ streamPc' # "register")
       => /\ streamPc' = "connect"
          /\ REGISTRY # <<>> => REGISTRY' = REGISTRY]_vars

\* The gauges that events write to
SensorGauges == Range(Collectors) \ {"gateway_info"}

\* C12: every series of a sensor gauge holds the value written by the last
\* event, in arrival order, that set that series, and there are no other series.
C12_LastValueWins ==
    \A name \in SensorGauges :
        /\ DOMAIN GaugeOf(name) = {k[2] : k \in {k \in DOMAIN written : k[1] = name}}
        /\ \A l \in DOMAIN GaugeOf(name) : GaugeOf(name)[l] = written[<<name, l>>].value

\* C12 witness: a series was set twice, to different values, and holds the
\* second
C12_Witness ==
    \E k \in DOMAIN written :
        /\ written[k].before # None
        /\ written[k].before[1] # written[k].value
        /\ GaugeOf(k[1])[k[2]] = written[k].value

IdentityLabels == {"manufacturername", "modelid", "name", "swversion"}

\* The gauges declared with the type label
TypedGauges == {"temperature_celsius", "pressure_hpa", "humidity_ratio"}

\* The label names a gauge is declared with
LabelNames(name) ==
    IF name \in TypedGauges THEN IdentityLabels \cup {"type"} ELSE IdentityLabels

\* C13: every sample of a state or config event has the label names of its
\* gauge - the four identity labels, and type on temperature, pressure and
\* humidity only - with the values of the identity cached for the event's id,
\* and every series of a sensor gauge has the label names of its gauge.
C13_LabelsOfCachedIdentity ==
    /\ (LastChanged /\ last.event.attr = None) =>
          \A sample \in emitted :
              /\ DOMAIN sample.labels = LabelNames(sample.metric)
              /\ LabelsFrom(sample, sensors[last.event.id])
              /\ sample.labels \in DOMAIN GaugeOf(sample.metric)
    /\ \A name \in SensorGauges :
          \A l \in DOMAIN GaugeOf(name) : DOMAIN l = LabelNames(name)

\* C13 witness: a state event for a cached device set its last-updated series
\* and its temperature, after a config event had set a battery series
C13_Witness ==
    /\ LastChanged /\ last.event.attr = None
    /\ \E sample \in emitted :
          sample.metric = "temperature_celsius" /\ "type" \in DOMAIN sample.labels
    /\ \E sample \in emitted :
          sample.metric = "sensor_last_updated_ms" /\ "type" \notin DOMAIN sample.labels
    /\ \E l \in DOMAIN BATTERY : "type" \notin DOMAIN l

\* C14: the cache changes only when a changed event with an identity payload
\* is read, and then only in the entry of that event's id; no step removes an
\* id from the cache.
C14_CacheWrittenByIdentityUpdateOnly ==
    [][/\ DOMAIN sensors \subseteq DOMAIN sensors'
       /\ sensors' # sensors =>
             /\ FrameStep
             /\ LastChanged'
             /\ last'.event.attr # None
             /\ \A id \in DOMAIN sensors \ {last'.event.id} : sensors'[id] = sensors[id]]_vars

\* C14 witness: a deleted event for device "1", carrying an identity other than
\* the cached one, was read and the cached identity is still there, beside
\* that of device "2"
C14_Witness ==
    /\ last.frame = "event" /\ last.event.event = "deleted"
    /\ last.event.attr # None
    /\ DOMAIN sensors = {"1", "2"}
    /\ sensors[last.event.id] # last.event.attr[1]

\* C15: an event whose kind is not "event" or whose action is not "changed"
\* leaves the cache and every gauge as they were, sets no sample, and the loop
\* goes on.
C15_OtherKindOrActionDropped ==
    [][(/\ FrameStep
        /\ last'.frame = "event"
        /\ ~(last'.event.type_ = "event" /\ last'.event.event = "changed"))
       => /\ sensors' = sensors
          /\ gauges' = gauges
          /\ emitted' = {}
          /\ streamPc' = "read"]_vars

\* C15 witness: an event of kind "response" carrying all three sections was
\* read for device "1", which is cached and has a temperature series
C15_Witness ==
    /\ last.frame = "event" /\ last.event.type_ = "response"
    /\ last.event.attr # None /\ last.event.state # None /\ last.event.config # None
    /\ last.event.id \in DOMAIN sensors
    /\ \E l \in DOMAIN TEMPERATURE : l.name = sensors[last.event.id].name
    /\ emitted = {}

\* C16: whatever event was decoded and whatever the cache held, the call of
\* process for it returned Ok.
C16_ProcessReturnsOk == last.frame = "event" => result = "Ok"

\* A step of the stream thread
StreamStep == streamPc' # streamPc \/ nframes' # nframes

\* C17: a step that is not the stream thread's - answering a request, for
\* /metrics or anything else - leaves the gauges, the registry and the cache as
\* they were, whatever the stream thread has done before it or does after it.
C17_ServingReadOnly ==
    [][~StreamStep => /\ gauges' = gauges
                      /\ REGISTRY' = REGISTRY
                      /\ sensors' = sensors]_vars

\* C17 witness: a snapshot holding a last-seen series was served while the
\* stream was being read, and an event read after it has changed a gauge
C17_Witness ==
    /\ response.request = "GET /metrics"
    /\ \E sample \in response.body : sample.metric = "deconz_sensor_last_seen_ms"
    /\ response.body # Metrics
    /\ streamPc = "read"

\* gateway_info is set to 1
Discovered == \E l \in DOMAIN INFO : INFO[l] = F64(1)

\* All seven gauges are registered
Registered == Range(REGISTRY) = Range(Collectors)

\* run failed in discovery or in registration
StartupFailed == error \in {"gateway", "already_registered"}

\* C18: registration is reached only from a discovery that has set
\* gateway_info to 1, the connection only from a registration of all seven
\* gauges, and frames are read only on the connection; a failure of discovery
\* or registration comes before any connection of that call, ends the call
\* with the cache empty, and no frame is read after it.
C18_StartupOrder ==
    [][/\ (streamPc' = "register" /\ streamPc # "register") =>
             streamPc = "discover" /\ Discovered'
       /\ (streamPc' = "connect" /\ streamPc # "connect") =>
             streamPc = "register" /\ Registered' /\ Discovered'
       /\ (streamPc' = "read" /\ streamPc # "read") => streamPc = "connect"
       /\ FrameStep => streamPc = "read" /\ Registered /\ Discovered
       /\ (StartupFailed' /\ ~StartupFailed) =>
             /\ streamPc \in {"discover", "register"}
             /\ streamPc' = "panic"
             /\ sensors' = EmptyMap
       /\ (StartupFailed /\ StartupFailed') =>
             /\ streamPc' = "panic"
             /\ sensors' = EmptyMap
             /\ nframes' = nframes]_vars

\* C18 witness: a first call of run read frames and ended; the second call
\* discovered the gateway, failed to register, and its cache is empty
C18_Witness ==
    /\ error = "already_registered"
    /\ streamPc = "panic"
    /\ discoveries = 2
    /\ nframes > 0
    /\ sensors = EmptyMap

\* C19: every series that an event has set is in the snapshot, with the value
\* last written to it, in every later state - also when the identity it was
\* labelled from has since been replaced in the cache.
C19_SeriesNeverRemoved ==
    \A k \in DOMAIN written :
        Sample("deconz_" \o k[1], k[2], written[k].value) \in Metrics

\* C19 witness: device "1" alone was identified, under two names, and the
\* snapshot served after the rename holds a last-seen series under each name
C19_Witness ==
    /\ DOMAIN identities = {"1"}
    /\ response.request = "GET /metrics"
    /\ response.body = Metrics
    /\ \E stale, new \in response.body :
          /\ stale.metric = "deconz_sensor_last_seen_ms"
          /\ new.metric = "deconz_sensor_last_seen_ms"
          /\ new.labels.name = sensors["1"].name
          /\ stale.labels.name # sensors["1"].name

\* The gauges declared without the type label
UntypedGauges == SensorGauges \ TypedGauges

\* Two identities agree on manufacturer, model, name and firmware version, a
\* missing firmware version counting as the empty string
SameIdentityLabels(s, t) ==
    /\ s.manufacturername = t.manufacturername
    /\ s.modelid = t.modelid
    /\ s.name = t.name
    /\ (IF s.swversion = None THEN "" ELSE s.swversion[1]) =
       (IF t.swversion = None THEN "" ELSE t.swversion[1])

\* C20: when two device ids are cached with identities that agree on the four
\* identity labels, each of battery, last-updated and last-seen has at most one
\* series under those labels, and a sample an event for either device has set
\* on such a gauge is that series and has given it its value.
C20_SeriesKeyedByLabels ==
    \A a, b \in DOMAIN sensors :
        (a # b /\ SameIdentityLabels(sensors[a], sensors[b])) =>
            \A name \in UntypedGauges :
                LET series == {l \in DOMAIN GaugeOf(name) :
                                  LabelsFrom([labels |-> l], sensors[a])}
                IN  /\ Cardinality(series) <= 1
                    /\ (LastChanged /\ last.event.id \in {a, b}) =>
                          \A sample \in emitted :
                              sample.metric = name =>
                                  /\ series = {sample.labels}
                                  /\ GaugeOf(name)[sample.labels] = sample.value

\* C20 witness: devices "1" and "2" are cached with different identities, one
\* without a firmware version and one with the empty string; their last-seen
\* values differ and the one last-seen series holds that of the device
\* observed last, in place of the other's
C20_Witness ==
    /\ DOMAIN sensors = {"1", "2"}
    /\ sensors["1"] # sensors["2"]
    /\ SameIdentityLabels(sensors["1"], sensors["2"])
    /\ sensors["1"].swversion = None \/ sensors["2"].swversion = None
    /\ Cardinality(DOMAIN LASTSEEN) = 1
    /\ LastChanged /\ last.event.attr # None
    /\ \E l \in DOMAIN LASTSEEN :
          /\ LASTSEEN[l] = TimestampMillis(sensors[last.event.id].lastseen)
          /\ written[<<"sensor_last_seen_ms", l>>].before # None
          /\ written[<<"sensor_last_seen_ms", l>>].before[1] # LASTSEEN[l]

====
